---- MODULE Spec2Model ----
(***************************************************************************)
(* Model of api/submit-waitlist.js: the serverless handler that validates  *)
(* a waitlist signup, normalizes the service-account private key read from *)
(* the environment, authenticates, checks access to the spreadsheet and    *)
(* appends one row.                                                        *)
(*                                                                         *)
(* Strings are sequences of tokens.  A token stands for a fixed piece of   *)
(* text: "-----" is a run of five dashes, "BEGIN PRIVATE KEY" and          *)
(* "END PRIVATE KEY" are the marker words, "backslash" and "n" are the two *)
(* characters of the escape sequence, "LF" is a real newline, "space" a    *)
(* blank, "dquote" and "squote" the quote characters.  The texts the       *)
(* handler searches for (the markers, the escape sequence, "permission",   *)
(* "PERMISSION_DENIED", "not found", "404") are tokens or token sequences  *)
(* of their own and occur in no other token's text nor across a token      *)
(* boundary, so String.prototype.includes and the literal regular          *)
(* expressions of the handler act on token sequences as they act on the    *)
(* text.                                                                   *)
(***************************************************************************)
EXTENDS Integers, Sequences, FiniteSets, TLC

VARIABLES env, req, pc, privateKey, calls, settled, sheet, responses

vars == <<env, req, pc, privateKey, calls, settled, sheet, responses>>

---------------------------------------------------------------------------
(* Bounds *)

\* number of pieces a raw GOOGLE_PRIVATE_KEY is made of, in the handler runs
MaxEnvKeyPieces == 2
\* number of pieces of a raw key in the runs of the normalization alone
MaxKeyPieces == 3

---------------------------------------------------------------------------
(* String primitives *)

RECURSIVE Concat(_)
Concat(ss) == IF ss = <<>> THEN <<>> ELSE Head(ss) \o Concat(Tail(ss))

\* s.startsWith(p)
StartsWith(s, p) == Len(s) >= Len(p) /\ SubSeq(s, 1, Len(p)) = p

\* s.includes(p)
Includes(s, p) == \E i \in 1..(Len(s) - Len(p) + 1) : SubSeq(s, i, i + Len(p) - 1) = p

\* s.replace(/p/g, r) for a literal pattern p: leftmost matches, not overlapping
RECURSIVE ReplaceAll(_, _, _)
ReplaceAll(s, p, r) ==
    IF s = <<>> THEN <<>>
    ELSE IF StartsWith(s, p) THEN r \o ReplaceAll(SubSeq(s, Len(p) + 1, Len(s)), p, r)
    ELSE <<Head(s)>> \o ReplaceAll(Tail(s), p, r)

IsQuote(t) == t \in {"dquote", "squote"}

\* s.replace(/^["']|["']$/g, '')
StripQuotes(s) ==
    LET lead == Len(s) >= 1 /\ IsQuote(s[1])
        rest == IF lead THEN Tail(s) ELSE s
        trail == Len(rest) >= 1 /\ IsQuote(rest[Len(rest)])
    IN IF trail THEN SubSeq(rest, 1, Len(rest) - 1) ELSE rest

IsSpace(t) == t \in {"space", "LF"}

RECURSIVE TrimStart(_)
TrimStart(s) == IF s # <<>> /\ IsSpace(Head(s)) THEN TrimStart(Tail(s)) ELSE s

RECURSIVE TrimEnd(_)
TrimEnd(s) ==
    IF s # <<>> /\ IsSpace(s[Len(s)]) THEN TrimEnd(SubSeq(s, 1, Len(s) - 1)) ELSE s

\* s.trim()
Trim(s) == TrimEnd(TrimStart(s))

---------------------------------------------------------------------------
(* Private key normalization, lines 19-32 *)

BeginMarker == <<"-----", "BEGIN PRIVATE KEY", "-----">>
EndMarker == <<"-----", "END PRIVATE KEY", "-----">>

\* privateKey.replace(/\\n/g, '\n')
ReplaceEscapes(s) == ReplaceAll(s, <<"backslash", "n">>, <<"LF">>)

\* the repair applied whether or not the key already has a newline
InsertLineBreaks_Always(s) ==
    ReplaceAll(ReplaceAll(s, BeginMarker, BeginMarker \o <<"LF">>),
               EndMarker, <<"LF">> \o EndMarker)

\* the repair of a key without any newline, lines 28-32
InsertLineBreaks(s) ==
    IF ~Includes(s, <<"LF">>)
    THEN ReplaceAll(ReplaceAll(s, BeginMarker, BeginMarker \o <<"LF">>),
                    EndMarker, <<"LF">> \o EndMarker)
    ELSE s

NormalizeKey(raw) == InsertLineBreaks(ReplaceEscapes(StripQuotes(raw)))

\* a format check that is content with one of the two markers
HasMarkers_Either(k) ==
    Includes(k, <<"BEGIN PRIVATE KEY">>) \/ Includes(k, <<"END PRIVATE KEY">>)

\* line 40
HasMarkers(k) ==
    Includes(k, <<"BEGIN PRIVATE KEY">>) /\ Includes(k, <<"END PRIVATE KEY">>)

---------------------------------------------------------------------------
(* JavaScript values: request body fields, messages of thrown values *)

Undefined == [type |-> "undefined", val |-> <<>>]
Str(s) == [type |-> "string", val |-> s]
True == [type |-> "boolean", val |-> <<"true">>]

\* !!v
Truthy(v) == \/ v.type = "boolean"
             \/ v.type = "string" /\ v.val # <<>>

\* `${v}`
ToStr(v) == IF v.type = "string" THEN v.val ELSE <<v.type>>

\* a thrown value: null/undefined, or anything else with its .message property
Nullish == [nullish |-> TRUE, message |-> Undefined]
Thrown(m) == [nullish |-> FALSE, message |-> m]
\* new Error(text)
Error(text) == Thrown(Str(text))

---------------------------------------------------------------------------
(* Inputs *)

\* the texts a raw GOOGLE_PRIVATE_KEY is put together from
KeyPieces ==
    { <<"dquote">>, <<"squote">>, <<"backslash", "n">>, <<"LF">>, <<"space">>, <<"x">>,
      <<"-----">>, <<"BEGIN PRIVATE KEY">>, <<"END PRIVATE KEY">>,
      BeginMarker, EndMarker }

RawKeys(n) == UNION { { Concat(ps) : ps \in [1..k -> KeyPieces] } : k \in 0..n }

\* process.env.GOOGLE_SERVICE_ACCOUNT_EMAIL; <<>> is unset (or empty): the handler
\* reads it only under !, ||, or after it was found truthy
Emails ==
    { <<>>, <<"space">>, <<"svc@proj.iam">>, <<"svc-", "404", "@proj.iam">>,
      <<"permission", "s@proj.iam">> }

SheetIds == { <<>>, <<"sheet-1">> }

Envs(n) == [email : Emails, key : RawKeys(n), sheetId : SheetIds]

NoBody == [email |-> Undefined, username |-> Undefined, timestamp |-> Undefined]

Bodies ==
    [email : {Undefined, Str(<<>>), Str(<<"a@b.com">>)},
     username : {Undefined, Str(<<"alice">>)},
     timestamp : {Undefined, Str(<<"2024-01-01T00:00:00Z">>)}]

FullBody ==
    [email |-> Str(<<"a@b.com">>), username |-> Str(<<"alice">>),
     timestamp |-> Str(<<"2024-01-01T00:00:00Z">>)]

\* hasBody = FALSE: req.body is undefined
Requests ==
    [method : {"POST"}, hasBody : {TRUE}, body : Bodies]
    \cup [method : {"GET", "POST"}, hasBody : {FALSE}, body : {NoBody}]
    \cup [method : {"GET"}, hasBody : {TRUE}, body : {FullBody}]

\* the message texts of the errors the external service rejects with
UpstreamMessages ==
    { <<"timeout">>,
      <<"The caller does not have ", "permission">>,
      <<"PERMISSION_DENIED">>,
      <<"Requested entity was ", "not found">>,
      <<"Request failed with status code ", "404">>,
      <<"not found", ": no ", "permission">> }

\* what a rejected call of the external service throws
ThrownValues ==
    { Error(m) : m \in UpstreamMessages } \cup { Thrown(Undefined), Nullish }

---------------------------------------------------------------------------
(* The handler's pure steps *)

\* a method gate that lets every method through
MethodAllowed_AnyMethod(m) == TRUE

\* line 5
MethodAllowed(m) == m = "POST"

\* line 12
InputValid(b) == Truthy(b.email) /\ Truthy(b.username)

\* line 35, with privateKey the normalized key
ConfigComplete(e, k) == e.email # <<>> /\ k # <<>> /\ e.sheetId # <<>>

\* lines 54-60
Credentials(e, k) ==
    [op |-> "getClient", client_email |-> Trim(e.email), private_key |-> Trim(k)]

\* lines 71-73
GetRequest(e) == [op |-> "spreadsheets.get", spreadsheetId |-> e.sheetId]

\* an append whose row has the columns in the order of the request body
AppendRequest_BodyOrder(e, b) ==
    [op |-> "values.append", spreadsheetId |-> e.sheetId, range |-> "Sheet1!A:C",
     valueInputOption |-> "USER_ENTERED",
     values |-> << <<b.email, b.username, b.timestamp>> >>]

\* lines 80-87
AppendRequest(e, b) ==
    [op |-> "values.append", spreadsheetId |-> e.sheetId, range |-> "Sheet1!A:C",
     valueInputOption |-> "USER_ENTERED",
     values |-> << <<b.timestamp, b.email, b.username>> >>]

TypeErrorText == <<"Cannot read properties of null (reading 'message')">>

\* lines 74-77: what the inner catch throws for a rejected access check
AccessError(e, accessError) ==
    IF accessError.nullish THEN Error(TypeErrorText)
    ELSE Error(<<"Cannot access sheet: ">> \o ToStr(accessError.message)
               \o <<". Please verify the sheet is shared with ">> \o e.email)

MissingEnvText == <<"Missing environment variables. Please check Vercel settings.">>
PermissionText ==
    <<"Permission denied. Please share the sheet with the service account email.">>
NotFoundText == <<"Sheet not found. Please check the GOOGLE_SHEET_ID.">>
GenericText == <<"Failed to save data">>

\* line 103
EnvMissing(e) == e.email = <<>> \/ e.key = <<>> \/ e.sheetId = <<>>

\* lines 102-109, for an error whose message is a string
ErrorMessage(e, msg) ==
    IF EnvMissing(e) THEN MissingEnvText
    ELSE IF Includes(msg, <<"PERMISSION_DENIED">>) \/ Includes(msg, <<"permission">>)
         THEN PermissionText
    ELSE IF Includes(msg, <<"not found">>) \/ Includes(msg, <<"404">>)
         THEN NotFoundText
    ELSE GenericText

\* lines 90-115: whether the catch block itself throws (error.message of a
\* null or undefined value at line 93, .includes of a message that is not a
\* string at line 105)
CatchThrows(e, error) ==
    \/ error.nullish
    \/ ~EnvMissing(e) /\ error.message.type # "string"

Response(status, success, message, error, details) ==
    [status |-> status, success |-> success, message |-> message,
     error |-> error, details |-> details]

\* lines 111-114
ErrorResponse(e, error) ==
    Response(500, Undefined, Undefined,
             Str(ErrorMessage(e, IF error.message.type = "string"
                                 THEN error.message.val ELSE <<>>)),
             error.message)

---------------------------------------------------------------------------
(* The handler as a state machine.  One action is one synchronous run of   *)
(* the handler: from its entry, or from the settling of the call it awaits,*)
(* to the next await, the response, or an exception leaving the handler.   *)
(* pc: "start" the request has arrived; "awaitAuth", "awaitGet",           *)
(* "awaitAppend" the handler awaits auth.getClient(), spreadsheets.get(),  *)
(* spreadsheets.values.append(); "done" it returned after responding;      *)
(* "threw" an exception left it (its promise rejected) without a response. *)
(* calls are the requests made to the external service, in order; settled  *)
(* says, call by call, how each ended.                                     *)

Resolved == [ok |-> TRUE, thrown |-> Thrown(Undefined)]
Rejected(v) == [ok |-> FALSE, thrown |-> v]

Init ==
    /\ env \in Envs(MaxEnvKeyPieces)
    /\ req \in Requests
    /\ pc = "start"
    /\ privateKey = <<>>
    /\ calls = <<>>
    /\ settled = <<>>
    /\ sheet = <<>>
    /\ responses = <<>>

\* res.status(..).json(..) followed by return
Respond(r) == /\ responses' = Append(responses, r)
              /\ pc' = "done"

\* lines 90-115, entered with the value the try block threw
Catch(error) ==
    IF CatchThrows(env, error)
    THEN pc' = "threw" /\ UNCHANGED responses
    ELSE Respond(ErrorResponse(env, error))

\* lines 3-63: entry to the first await
Handle ==
    /\ pc = "start"
    /\ IF ~MethodAllowed(req.method)
       THEN /\ Respond(Response(405, Undefined, Undefined,
                                Str(<<"Method not allowed">>), Undefined))
            /\ UNCHANGED <<privateKey, calls>>
       ELSE IF ~req.hasBody
       THEN \* line 9 destructures undefined: a TypeError outside the try block
            /\ pc' = "threw"
            /\ UNCHANGED <<privateKey, calls, responses>>
       ELSE IF ~InputValid(req.body)
       THEN /\ Respond(Response(400, Undefined, Undefined,
                                Str(<<"Email and username are required">>), Undefined))
            /\ UNCHANGED <<privateKey, calls>>
       ELSE LET k == NormalizeKey(env.key) IN
            /\ privateKey' = k
            /\ IF ~ConfigComplete(env, k)
               THEN /\ Catch(Error(<<"Missing required environment variables">>))
                    /\ UNCHANGED calls
               ELSE IF ~HasMarkers(k)
               THEN /\ Catch(Error(<<"Invalid private key format - must include BEGIN and END markers">>))
                    /\ UNCHANGED calls
               ELSE /\ calls' = Append(calls, Credentials(env, k))
                    /\ pc' = "awaitAuth"
                    /\ UNCHANGED responses
    /\ UNCHANGED <<env, req, settled, sheet>>

\* lines 63-73: auth.getClient() resolved
AuthResolved ==
    /\ pc = "awaitAuth"
    /\ calls' = Append(calls, GetRequest(env))
    /\ settled' = Append(settled, Resolved)
    /\ pc' = "awaitGet"
    /\ UNCHANGED <<env, req, privateKey, sheet, responses>>

\* line 63: auth.getClient() rejected
AuthRejected ==
    /\ pc = "awaitAuth"
    /\ \E error \in ThrownValues :
          /\ settled' = Append(settled, Rejected(error))
          /\ Catch(error)
    /\ UNCHANGED <<env, req, privateKey, calls, sheet>>

\* lines 71-87: the access check resolved
GetResolved ==
    /\ pc = "awaitGet"
    /\ calls' = Append(calls, AppendRequest(env, req.body))
    /\ settled' = Append(settled, Resolved)
    /\ pc' = "awaitAppend"
    /\ UNCHANGED <<env, req, privateKey, sheet, responses>>

\* an access check whose failure is logged and then ignored
GetRejected_Swallowed ==
    /\ pc = "awaitGet"
    /\ \E accessError \in ThrownValues :
          settled' = Append(settled, Rejected(accessError))
    /\ calls' = Append(calls, AppendRequest(env, req.body))
    /\ pc' = "awaitAppend"
    /\ UNCHANGED <<env, req, privateKey, sheet, responses>>

\* lines 74-77: the access check rejected
GetRejected ==
    /\ pc = "awaitGet"
    /\ \E accessError \in ThrownValues :
          /\ settled' = Append(settled, Rejected(accessError))
          /\ Catch(AccessError(env, accessError))
    /\ UNCHANGED <<env, req, privateKey, calls, sheet>>

\* lines 80-89: the append resolved; the service has added the rows it was sent
AppendResolved ==
    /\ pc = "awaitAppend"
    /\ settled' = Append(settled, Resolved)
    /\ sheet' = sheet \o calls[Len(calls)].values
    /\ Respond(Response(200, True, Str(<<"Data saved successfully">>),
                        Undefined, Undefined))
    /\ UNCHANGED <<env, req, privateKey, calls>>

\* line 80: the append rejected
AppendRejected ==
    /\ pc = "awaitAppend"
    /\ \E error \in ThrownValues :
          /\ settled' = Append(settled, Rejected(error))
          /\ Catch(error)
    /\ UNCHANGED <<env, req, privateKey, calls, sheet>>

Next ==
    \/ Handle
    \/ AuthResolved
    \/ AuthRejected
    \/ GetResolved
    \/ GetRejected
    \/ AppendResolved
    \/ AppendRejected

Spec == Init /\ [][Next]_vars

---------------------------------------------------------------------------
(* The normalization alone, over every raw key of up to MaxKeyPieces pieces *)

KeyInit ==
    /\ env \in [email : {<<"svc@proj.iam">>}, key : RawKeys(MaxKeyPieces),
                sheetId : {<<"sheet-1">>}]
    /\ req = [method |-> "POST", hasBody |-> TRUE, body |-> FullBody]
    /\ pc = "start"
    /\ privateKey = <<>>
    /\ calls = <<>>
    /\ settled = <<>>
    /\ sheet = <<>>
    /\ responses = <<>>

\* lines 19-32
Normalize ==
    /\ pc = "start"
    /\ privateKey' = NormalizeKey(env.key)
    /\ pc' = "normalized"
    /\ UNCHANGED <<env, req, calls, settled, sheet, responses>>

KeyNext == Normalize

KeySpec == KeyInit /\ [][KeyNext]_vars

---------------------------------------------------------------------------
(* Claims *)

Validated == req.method = "POST" /\ req.hasBody /\ InputValid(req.body)

AllResolved(n) == Len(settled) = n /\ \A i \in 1..n : settled[i].ok

SuccessResponse ==
    Response(200, True, Str(<<"Data saved successfully">>), Undefined, Undefined)

\* C1: a POST with truthy email and username, a configuration that passes the
\* checks and three external calls that all succeed ends with the one response
\* 200 {success: true, message: "Data saved successfully"}, and the sheet has
\* gained exactly the row [timestamp, email, username], appended with range
\* "Sheet1!A:C"; such a request with raw values present and a key with both
\* markers is never answered before authentication is started.
C1_SuccessAppendsOneRow ==
    /\ ( /\ Validated
         /\ pc # "start"
         /\ env.email # <<>> /\ env.sheetId # <<>>
         /\ Includes(NormalizeKey(env.key), <<"BEGIN PRIVATE KEY">>)
         /\ Includes(NormalizeKey(env.key), <<"END PRIVATE KEY">>) )
       => Len(calls) >= 1 /\ calls[1].op = "getClient"
    /\ (Validated /\ AllResolved(3))
       => /\ pc = "done"
          /\ responses = <<SuccessResponse>>
          /\ sheet = << <<req.body.timestamp, req.body.email, req.body.username>> >>
          /\ calls[3].op = "values.append"
          /\ calls[3].range = "Sheet1!A:C"
          /\ calls[3].values = sheet

C1_Witness ==
    /\ Validated
    /\ AllResolved(3)
    /\ req.body.timestamp = Undefined
    /\ Len(sheet) = 1

\* C2: a request whose method is not POST, with or without a body, is answered
\* 405 {error: "Method not allowed"} and nothing else happens: no call to the
\* external service is made and the sheet is unchanged.
C2_NonPostIs405 ==
    (req.method # "POST" /\ pc # "start")
    => /\ pc = "done"
       /\ responses = <<Response(405, Undefined, Undefined,
                                 Str(<<"Method not allowed">>), Undefined)>>
       /\ calls = <<>>
       /\ sheet = <<>>

C2_Witness == req.method = "GET" /\ ~req.hasBody /\ pc = "done" /\ Len(responses) = 1

BadRequestResponse ==
    Response(400, Undefined, Undefined, Str(<<"Email and username are required">>),
             Undefined)

\* C3: a POST in which email or username is missing, a POST without any body
\* included, is answered 400 {error: "Email and username are required"} without
\* any external call; a POST with truthy email and username is never answered 400.
C3_MissingFieldIs400 ==
    /\ (req.method = "POST" /\ pc # "start" /\ ~(req.hasBody /\ InputValid(req.body)))
       => /\ responses = <<BadRequestResponse>>
          /\ calls = <<>>
    /\ Validated => \A i \in 1..Len(responses) : responses[i].status # 400

\* C4: for a validated POST, if the service-account email, the private key or the
\* spreadsheet id is empty after normalization (quotes stripped, escapes replaced,
\* trimmed), authentication is never attempted and the response is 500 with the
\* "Missing environment variables..." message.
C4_EmptyConfigIsMissingEnv ==
    ( /\ Validated
      /\ pc # "start"
      /\ \/ Trim(env.email) = <<>>
         \/ Trim(NormalizeKey(env.key)) = <<>>
         \/ env.sheetId = <<>> )
    => /\ calls = <<>>
       /\ Len(responses) = 1
       /\ responses[1].status = 500
       /\ responses[1].error = Str(MissingEnvText)

\* C5: the private key passed when authentication is started contains both
\* markers and at least one real newline.
C5_KeyPassedIsPem ==
    \A i \in 1..Len(calls) :
        calls[i].op = "getClient"
        => /\ HasMarkers(calls[i].private_key)
           /\ Includes(calls[i].private_key, <<"LF">>)

\* the error text the upstream message m alone selects
TextChosenBy(m) ==
    IF Includes(m, <<"permission">>) \/ Includes(m, <<"PERMISSION_DENIED">>)
    THEN PermissionText
    ELSE IF Includes(m, <<"not found">>) \/ Includes(m, <<"404">>)
    THEN NotFoundText
    ELSE GenericText

\* C6: when the access check fails with upstream message m the response is 500
\* and its error text is chosen by m alone, whatever the service-account email.
C6_AccessErrorChosenByUpstream ==
    ( /\ Len(settled) = 2
      /\ ~settled[2].ok
      /\ ~settled[2].thrown.nullish
      /\ settled[2].thrown.message.type = "string" )
    => /\ Len(responses) = 1
       /\ responses[1].status = 500
       /\ responses[1].error = Str(TextChosenBy(settled[2].thrown.message.val))

\* C7: for a validated POST every failure, whatever the failing step throws,
\* is caught: the request ends with exactly one response, of status 500 with
\* an error and a details field, and nothing leaves the handler unanswered.
C7_EveryFailureIs500 ==
    Validated
    => /\ pc # "threw"
       /\ (pc = "done" /\ ~AllResolved(3))
          => /\ Len(responses) = 1
             /\ responses[1].status = 500
             /\ responses[1].error.type = "string"
             /\ responses[1].details.type = "string"

\* the case of C8: raw values all present, normalized key without a marker
KeyFormatFails ==
    /\ Validated
    /\ pc # "start"
    /\ env.email # <<>> /\ env.key # <<>> /\ env.sheetId # <<>>
    /\ \/ ~Includes(NormalizeKey(env.key), <<"BEGIN PRIVATE KEY">>)
       \/ ~Includes(NormalizeKey(env.key), <<"END PRIVATE KEY">>)

\* C8 as stated: a validated POST whose raw configuration values are all present
\* and whose normalized key lacks a marker fails before authentication, and the
\* 500 response carries the "Missing environment variables..." message.
C8_FormatFailureIsMissingEnv ==
    KeyFormatFails
    => /\ calls = <<>>
       /\ Len(responses) = 1
       /\ responses[1].status = 500
       /\ responses[1].error = Str(MissingEnvText)

\* C8 amended: such a request fails before authentication and the 500 response
\* carries the generic "Failed to save data"; the failed check is named in
\* details only ("Invalid private key format...", or "Missing required
\* environment variables" when the normalized key is empty).
C8_FormatFailureIsGeneric ==
    KeyFormatFails
    => /\ calls = <<>>
       /\ pc = "done"
       /\ responses =
            <<Response(500, Undefined, Undefined, Str(GenericText),
                IF NormalizeKey(env.key) = <<>>
                THEN Str(<<"Missing required environment variables">>)
                ELSE Str(<<"Invalid private key format - must include BEGIN and END markers">>))>>

C8_Witness ==
    /\ KeyFormatFails
    /\ Includes(privateKey, <<"BEGIN PRIVATE KEY">>)
    /\ responses # <<>>

\* C10: the external calls are made in the order authenticate, access check,
\* append, each at most once and each only after the one before it succeeded;
\* after a failure no further call is made; a 200 is sent only after the append
\* succeeded.
C10_CallsInOrder ==
    /\ Len(calls) <= 3
    /\ \A i \in 1..Len(calls) :
          calls[i].op = <<"getClient", "spreadsheets.get", "values.append">>[i]
    /\ Len(settled) <= Len(calls)
    /\ Len(calls) <= Len(settled) + 1
    /\ \A i \in 1..Len(settled) : i < Len(calls) => settled[i].ok
    /\ (\E i \in 1..Len(settled) : ~settled[i].ok) => Len(calls) = Len(settled)
    /\ \A i \in 1..Len(responses) : responses[i].status = 200 => AllResolved(3)

C10_Witness ==
    /\ pc = "done"
    /\ Len(calls) = 2
    /\ Len(settled) = 2
    /\ ~settled[2].ok

\* the raw key after quote stripping and escape replacement, lines 22-25
Unescaped(raw) == ReplaceEscapes(StripQuotes(raw))

\* the number of tokens t in s
RECURSIVE Count(_, _)
Count(s, t) == IF s = <<>> THEN 0 ELSE (IF Head(s) = t THEN 1 ELSE 0) + Count(Tail(s), t)

\* the number of places of s where p is found
Occurrences(s, p) ==
    Cardinality({ i \in 1..(Len(s) - Len(p) + 1) : SubSeq(s, i, i + Len(p) - 1) = p })

\* one newline stands right after the BEGIN marker, one right before the END
\* marker, and nothing else differs from s
TwoLineBreaksInserted(s, k) ==
    /\ Count(k, "LF") = 2
    /\ ReplaceAll(k, <<"LF">>, <<>>) = s
    /\ Includes(k, BeginMarker \o <<"LF">>)
    /\ Includes(k, <<"LF">> \o EndMarker)

\* C9 as stated: a raw key that after quote stripping and escape replacement has
\* no newline but holds both markers gets exactly one newline right after the
\* BEGIN marker and one right before the END marker, nothing else changes and the
\* result has exactly two newlines; a value that already has a newline gets none.
C9_ExactlyTwoLineBreaks ==
    pc = "normalized"
    => LET s == Unescaped(env.key) IN
       /\ (~Includes(s, <<"LF">>) /\ Includes(s, BeginMarker) /\ Includes(s, EndMarker))
          => TwoLineBreaksInserted(s, privateKey)
       /\ Includes(s, <<"LF">>) => privateKey = s

\* each marker is found once, and the END marker does not begin with the dashes
\* that close the BEGIN marker
MarkersOnceApart(s) ==
    /\ Occurrences(s, BeginMarker) = 1
    /\ Occurrences(s, EndMarker) = 1
    /\ ~Includes(s, <<"-----", "BEGIN PRIVATE KEY", "-----", "END PRIVATE KEY", "-----">>)

\* C9 amended: the same, for a raw key that after quote stripping and escape
\* replacement has no newline and holds each of the two dashed markers exactly
\* once, the two not sharing a run of dashes.
C9_TwoLineBreaksWhenMarkersOnce ==
    pc = "normalized"
    => LET s == Unescaped(env.key) IN
       /\ (~Includes(s, <<"LF">>) /\ MarkersOnceApart(s))
          => TwoLineBreaksInserted(s, privateKey)
       /\ Includes(s, <<"LF">>) => privateKey = s

C9_Witness ==
    /\ pc = "normalized"
    /\ ~Includes(Unescaped(env.key), <<"LF">>)
    /\ MarkersOnceApart(Unescaped(env.key))
    /\ Includes(env.key, <<"x">>)
    /\ Count(privateKey, "LF") = 2

====
